---- MODULE Spec2Model ----
(***************************************************************************)
(* Model of cnchi/download/download.py: the DownloadPackages coordinator.  *)
(* State: the fields of one DownloadPackages instance, the bounded event   *)
(* queue (callback_queue) shared with the UI thread, the settings store,   *)
(* and the position of the coordinator inside create_downloads_list.       *)
(* The collaborators (pacman.pac, download.metalink, the three backends)   *)
(* are environment: their outcomes are chosen nondeterministically.        *)
(***************************************************************************)
EXTENDS Integers, Sequences, FiniteSets, TLC

(* ---------------- bounds of the model ---------------- *)
\* longest package list handed to create_downloads_list
MaxPkgs == 3
\* capacity of the bounded event queue given as callback_queue
QueueCap == 2
\* direct queue_event calls are made while fewer than this many events were issued
MaxDirect == 4
\* most queue_event invocations followed in one behaviour
MaxCalls == 6

(* ---------------- values ---------------- *)
\* Python's None, kept apart from every dict (its domain is no file key)
None == [n \in {"None"} |-> "None"]

\* the empty dict {}
EmptyDict == [k \in {} |-> <<>>]

\* package names known to the resolver's database
Packages == {"a", "b", "c"}

\* ml.get_info(ml.create(pacman, p, conf)): file keys of package p's metalink
FileKeys(p) ==
  IF p = "a" THEN {"f1"}
  ELSE IF p = "b" THEN {"f1", "f2"}
  ELSE {"f2", "f3"}

\* the FileEntry package p's metalink gives for file key k (differs per package)
metalink_info(p) == [k \in FileKeys(p) |-> <<p, k>>]

\* values of the download_module constructor argument that are exercised
Modules == {"aria2", "urllib", "requests", "bogus"}

\* None where a path is expected (lines 65-67: the default of the path arguments)
NoPath == "None"

\* line 78: the package-manager cache directory used when none is passed
DefaultPacmanCacheDir == "/install/var/cache/pacman/pkg"

\* a pacman_cache_dir a caller passes (as the test case of line 236 does)
GivenPacmanCacheDir == "/tmp/pkg"

\* event types and texts used by direct queue_event calls
EventTypes == {"percent", "info"}
DirectTexts == {"a", "b"}

\* _('Creating the list of packages to download...')
CreatingMsg == "Creating the list of packages to download..."

\* all package lists of length 0..MaxPkgs
NameLists == UNION {[1..n -> Packages] : n \in 0..MaxPkgs}

(* ---------------- name resolution in start() ---------------- *)
\* names bound at module level (imports, the class, the __main__ block; _ is
\* the gettext function, line 220 or installed in builtins by the application)
ModuleNames ==
  {"os", "logging", "queue", "sys", "base_dir", "parent_dir", "pac", "ml",
   "download_urllib", "download_aria2", "download_requests", "InstallError",
   "DownloadPackages", "gettext", "_", "formatter", "logger", "stream_handler"}

\* names local to start(): its parameter and the names it assigns
StartLocals == {"self", "txt", "download"}

\* a bare name evaluated inside start() resolves (otherwise NameError)
NameDefined(name) == name \in StartLocals \cup ModuleNames

(* ---------------- pure helpers ---------------- *)
\* d[k] = v on a dict
DictSet(d, k, v) == [x \in (DOMAIN d) \cup {k} |-> IF x = k THEN v ELSE d[x]]

\* a merge in which a later package's entry replaces the one already kept
MergeInfo_overwrite(dl, info) ==
  [k \in (DOMAIN dl) \cup (DOMAIN info) |-> IF k \in DOMAIN info THEN info[k] ELSE dl[k]]

\* lines 170-172: merge info into the list, keys already present untouched
MergeInfo(dl, info) ==
  [k \in (DOMAIN dl) \cup (DOMAIN info) |-> IF k \in DOMAIN dl THEN dl[k] ELSE info[k]]

\* a rounding that cuts the quotient off after two decimals
Round2_truncate(processed, total) == (100 * processed) \div total

\* line 176: round(float(processed / total), 2), in hundredths. Python rounds
\* the exact quotient to the nearest hundredth; an exact tie goes to the even
\* hundredth (1/8 -> 0.12, 3/8 -> 0.38).
Round2(processed, total) ==
  LET q == (100 * processed) \div total
      r == (100 * processed) % total
  IN  IF 2 * r < total THEN q
      ELSE IF 2 * r > total THEN q + 1
      ELSE IF q % 2 = 0 THEN q ELSE q + 1

Digit == <<"0", "1", "2", "3", "4", "5", "6", "7", "8", "9">>

\* a formatting that always writes two decimals, as "%.2f" does
StrPercent_two_decimals(h) ==
  Digit[(h \div 100) + 1] \o "." \o
  Digit[((h % 100) \div 10) + 1] \o Digit[(h % 10) + 1]

\* line 177: str(percent) of a float with at most two decimals, given in
\* hundredths: 100 -> "1.0", 50 -> "0.5", 33 -> "0.33", 5 -> "0.05"
StrPercent(h) ==
  LET i == h \div 100
      f == h % 100
  IN  Digit[i + 1] \o "." \o
      (IF f % 10 = 0 THEN Digit[(f \div 10) + 1]
       ELSE Digit[(f \div 10) + 1] \o Digit[(f % 10) + 1])

\* lines 111-127: the backend class chosen for a download_module value
SelectBackend(module) ==
  IF module = "aria2" THEN "aria2"
  ELSE IF module = "urllib" THEN "urllib"
  ELSE "requests"

(* ---------------- state ---------------- *)
VARIABLES
  fs,                \* the directories that exist on the file system
  pacman_cache_dir,  \* self.pacman_cache_dir
  log,               \* records written by queue_event's logging.debug (line 199)
  download_module,   \* self.download_module
  sink,              \* self.callback_queue is not None
  queue,             \* contents of callback_queue (oldest first)
  last_event,        \* self.last_event
  downloads_list,    \* self.downloads_list
  failed_download,   \* settings['failed_download'] is True
  pc,                \* position of the coordinator
  caller,            \* who called create_downloads_list: "client" or "start"
  package_names,     \* parameter of the running create_downloads_list
  processed_packages,\* local of create_downloads_list
  pacman,            \* state of the pac.Pac handle of the last build
  resolved,          \* history: packages given to ml.create in the last build
  calls,             \* history: every queue_event invocation <<type, text>>
  delivered,         \* history: every event put on callback_queue
  fullSeen,          \* history: some put_nowait raised queue.Full
  buildMark,         \* history: Len(calls), Len(delivered) when the build began
  fetches,           \* history: every backend start(downloads_list) call
  last               \* history: the last operation that returned

vars == <<fs, pacman_cache_dir, log, download_module, sink, queue, last_event, downloads_list,
          failed_download, pc, caller, package_names, processed_packages,
          pacman, resolved, calls, delivered, fullSeen, buildMark, fetches, last>>

config == <<fs, pacman_cache_dir, download_module, sink>>
build == <<package_names, processed_packages, pacman, resolved, buildMark>>
events == <<queue, last_event, calls, delivered, fullSeen, log>>

\* line 143
total_packages == Len(package_names)

\* before DownloadPackages(...) is called: no instance yet; the directory a
\* caller is going to pass may or may not exist already
Init ==
  /\ fs \in {{}, {GivenPacmanCacheDir}}
  /\ pacman_cache_dir = NoPath
  /\ log = <<>>
  /\ download_module = "requests"
  /\ sink = FALSE
  /\ queue = <<>>
  /\ last_event = EmptyDict
  /\ downloads_list = None
  /\ failed_download = FALSE
  /\ pc = "new"
  /\ caller = "client"
  /\ package_names = <<>>
  /\ processed_packages = 0
  /\ pacman = "unbound"
  /\ resolved = <<>>
  /\ calls = <<>>
  /\ delivered = <<>>
  /\ fullSeen = FALSE
  /\ buildMark = <<0, 0>>
  /\ fetches = <<>>
  /\ last = [op |-> "", exc |-> "none", why |-> "", hadSet |-> FALSE]

(* ---------------- __init__, lines 61-97 ---------------- *)
\* DownloadPackages(package_names, download_module, pacman_cache_dir=dir,
\* callback_queue=...): line 88 hands os.makedirs the argument, not the
\* attribute set at 77-80, and os.makedirs(None) raises TypeError
DownloadPackages_init ==
  /\ pc = "new"
  /\ \E dir \in {NoPath, GivenPacmanCacheDir}, module \in Modules, has_queue \in BOOLEAN :
       /\ pacman_cache_dir' = IF dir = NoPath THEN DefaultPacmanCacheDir ELSE dir
       /\ IF dir = NoPath
            THEN \* line 88 raises: no instance is returned
                 /\ pc' = "no_instance"
                 /\ last' = [op |-> "__init__", exc |-> "TypeError", why |-> "",
                             hadSet |-> FALSE]
                 /\ UNCHANGED <<fs, download_module, sink>>
            ELSE \* exist_ok=True: fine if the directory is there already
                 /\ fs' = fs \cup {dir}
                 /\ download_module' = module
                 /\ sink' = has_queue
                 /\ pc' = "idle"
                 /\ last' = [op |-> "__init__", exc |-> "none", why |-> "",
                             hadSet |-> FALSE]
  /\ UNCHANGED <<events, downloads_list, failed_download, caller, build, fetches>>

(* ---------------- queue_event, lines 194-213 ---------------- *)
\* a queue_event that compares with the last text of any type, not of its own
queue_event_any_type(event_type, event_text) ==
  /\ calls' = Append(calls, <<event_type, event_text>>)
  /\ log' = IF ~sink /\ event_type # "percent"
              THEN Append(log, event_type \o ":" \o event_text) ELSE log
  /\ IF ~sink
       THEN UNCHANGED <<queue, last_event, delivered, fullSeen>>
       ELSE IF \E t \in DOMAIN last_event : last_event[t] = event_text
         THEN UNCHANGED <<queue, last_event, delivered, fullSeen>>
         ELSE /\ last_event' = DictSet(last_event, event_type, event_text)
              /\ IF Len(queue) < QueueCap
                   THEN /\ queue' = Append(queue, <<event_type, event_text>>)
                        /\ delivered' = Append(delivered, <<event_type, event_text>>)
                        /\ UNCHANGED fullSeen
                   ELSE /\ fullSeen' = TRUE
                        /\ UNCHANGED <<queue, delivered>>

\* a queue_event whose put does not honour the capacity of the queue
queue_event_unbounded(event_type, event_text) ==
  /\ calls' = Append(calls, <<event_type, event_text>>)
  /\ log' = IF ~sink /\ event_type # "percent"
              THEN Append(log, event_type \o ":" \o event_text) ELSE log
  /\ IF ~sink
       THEN UNCHANGED <<queue, last_event, delivered, fullSeen>>
       ELSE IF event_type \in DOMAIN last_event /\ last_event[event_type] = event_text
         THEN UNCHANGED <<queue, last_event, delivered, fullSeen>>
         ELSE /\ last_event' = DictSet(last_event, event_type, event_text)
              /\ queue' = Append(queue, <<event_type, event_text>>)
              /\ delivered' = Append(delivered, <<event_type, event_text>>)
              /\ fullSeen' = (fullSeen \/ Len(queue) >= QueueCap)

\* a queue_event that records an event as the last one only once it is queued
queue_event_records_delivered(event_type, event_text) ==
  /\ calls' = Append(calls, <<event_type, event_text>>)
  /\ log' = IF ~sink /\ event_type # "percent"
              THEN Append(log, event_type \o ":" \o event_text) ELSE log
  /\ IF ~sink
       THEN UNCHANGED <<queue, last_event, delivered, fullSeen>>
       ELSE IF event_type \in DOMAIN last_event /\ last_event[event_type] = event_text
         THEN UNCHANGED <<queue, last_event, delivered, fullSeen>>
         ELSE IF Len(queue) < QueueCap
                THEN /\ last_event' = DictSet(last_event, event_type, event_text)
                     /\ queue' = Append(queue, <<event_type, event_text>>)
                     /\ delivered' = Append(delivered, <<event_type, event_text>>)
                     /\ UNCHANGED fullSeen
                ELSE /\ fullSeen' = TRUE
                     /\ UNCHANGED <<queue, delivered, last_event>>

\* a queue_event that looks up the last event before it looks for the sink
queue_event_dedup_first(event_type, event_text) ==
  /\ calls' = Append(calls, <<event_type, event_text>>)
  /\ IF event_type \in DOMAIN last_event /\ last_event[event_type] = event_text
       THEN UNCHANGED <<queue, last_event, delivered, fullSeen, log>>
       ELSE /\ last_event' = DictSet(last_event, event_type, event_text)
            /\ IF ~sink
                 THEN /\ log' = IF event_type # "percent"
                                  THEN Append(log, event_type \o ":" \o event_text)
                                  ELSE log
                      /\ UNCHANGED <<queue, delivered, fullSeen>>
                 ELSE /\ UNCHANGED log
                      /\ IF Len(queue) < QueueCap
                           THEN /\ queue' = Append(queue, <<event_type, event_text>>)
                                /\ delivered' = Append(delivered, <<event_type, event_text>>)
                                /\ UNCHANGED fullSeen
                           ELSE /\ fullSeen' = TRUE
                                /\ UNCHANGED <<queue, delivered>>

queue_event(event_type, event_text) ==
  /\ calls' = Append(calls, <<event_type, event_text>>)
  /\ log' = IF ~sink /\ event_type # "percent"
              THEN \* 198-199: logging.debug("{0}:{1}".format(type, text))
                   Append(log, event_type \o ":" \o event_text)
              ELSE log
  /\ IF ~sink
       THEN \* 197-200: no sink, logged (not 'percent') or dropped
            UNCHANGED <<queue, last_event, delivered, fullSeen>>
       ELSE IF event_type \in DOMAIN last_event /\ last_event[event_type] = event_text
         THEN \* 202-205: do not repeat same event
              UNCHANGED <<queue, last_event, delivered, fullSeen>>
         ELSE /\ last_event' = DictSet(last_event, event_type, event_text)
              /\ IF Len(queue) < QueueCap
                   THEN /\ queue' = Append(queue, <<event_type, event_text>>)
                        /\ delivered' = Append(delivered, <<event_type, event_text>>)
                        /\ UNCHANGED fullSeen
                   ELSE \* 212-213: queue.Full swallowed
                        /\ fullSeen' = TRUE
                        /\ UNCHANGED <<queue, delivered>>

\* a client calls queue_event directly
call_queue_event ==
  /\ pc = "idle"
  /\ Len(calls) < MaxDirect
  /\ \E t \in EventTypes, x \in DirectTexts : queue_event(t, x)
  /\ last' = [op |-> "queue_event", exc |-> "none", why |-> "", hadSet |-> FALSE]
  /\ UNCHANGED <<config, downloads_list, failed_download, pc, caller, build, fetches>>

\* the UI thread takes the oldest event off callback_queue
consume ==
  /\ sink
  /\ queue # <<>>
  /\ queue' = Tail(queue)
  /\ UNCHANGED <<config, last_event, downloads_list, failed_download, pc, caller,
                 build, calls, delivered, fullSeen, log, fetches, last>>

(* ---------------- create_downloads_list, lines 138-192 ---------------- *)
\* the function returns: to the client, or to line 104 of start()
cdl_return(why) ==
  /\ pc' = IF caller = "start" THEN "l104" ELSE "idle"
  /\ last' = [op |-> "create_downloads_list", exc |-> "none", why |-> why,
              hadSet |-> FALSE]

\* an except block that leaves an empty list behind
cdl_abort_empty_list(why) ==
  /\ downloads_list' = EmptyDict
  /\ UNCHANGED failed_download
  /\ cdl_return(why)

\* an except block that returns without dropping the list
cdl_abort_keeps_list(why) ==
  /\ UNCHANGED <<downloads_list, failed_download>>
  /\ cdl_return(why)

\* an except block that also records the failure in the settings
cdl_abort_marks_failed(why) ==
  /\ downloads_list' = None
  /\ failed_download' = TRUE
  /\ cdl_return(why)

\* the except blocks at lines 153-156, 178-181 and 186-189: the error is
\* logged, the list is dropped and the function returns; the settings are
\* not touched
cdl_abort(why) ==
  /\ downloads_list' = None
  /\ UNCHANGED failed_download
  /\ cdl_return(why)

\* entry of create_downloads_list(names), line 140
cdl_enter(names, from) ==
  /\ Len(calls) + Len(names) + 3 <= MaxCalls
  /\ queue_event("percent", "0")
  /\ package_names' = names
  /\ caller' = from
  /\ buildMark' = <<Len(calls), Len(delivered)>>
  /\ pacman' = "unbound"
  /\ resolved' = <<>>
  /\ pc' = "l141"
  /\ UNCHANGED <<config, downloads_list, failed_download, processed_packages,
                 fetches, last>>

\* a client calls create_downloads_list(names) on the coordinator
create_downloads_list ==
  /\ pc = "idle"
  /\ \E names \in NameLists : cdl_enter(names, "client")

\* lines 141-145
cdl_info ==
  /\ pc = "l141"
  /\ queue_event("info", CreatingMsg)
  /\ processed_packages' = 0
  /\ downloads_list' = EmptyDict
  /\ pc' = "l148"
  /\ UNCHANGED <<config, failed_download, caller, package_names, pacman,
                 resolved, buildMark, fetches, last>>

\* lines 147-156: pac.Pac(...) gives a handle or raises (a constructor call
\* never yields None, so line 152 is not taken)
cdl_open ==
  /\ pc = "l148"
  /\ \E ok \in BOOLEAN :
       IF ok
         THEN /\ pacman' = "open"
              /\ pc' = IF total_packages = 0 THEN "l184" ELSE "l159"
              /\ UNCHANGED <<downloads_list, failed_download, last>>
         ELSE \* 153-156
              /\ cdl_abort("init")
              /\ UNCHANGED pacman
  /\ UNCHANGED <<config, events, caller, package_names,
                 processed_packages, resolved, buildMark, fetches>>

\* lines 159-181: one iteration of the loop. ml.create gives a metalink,
\* gives None (InstallError raised at 164) or raises; ml.get_info may raise.
cdl_package ==
  /\ pc = "l159"
  /\ LET package_name == package_names[processed_packages + 1] IN
     /\ resolved' = Append(resolved, package_name)
     /\ \E outcome \in {"metalink", "none", "raise"} :
          IF outcome = "metalink"
            THEN /\ downloads_list' = MergeInfo(downloads_list, metalink_info(package_name))
                 /\ processed_packages' = processed_packages + 1
                 /\ queue_event("percent",
                                StrPercent(Round2(processed_packages + 1, total_packages)))
                 /\ pc' = IF processed_packages + 1 = total_packages
                            THEN "l184" ELSE "l159"
                 /\ UNCHANGED <<failed_download, last>>
            ELSE \* 178-181
                 /\ cdl_abort("metalink")
                 /\ UNCHANGED <<events, processed_packages>>
  /\ UNCHANGED <<config, caller, package_names, pacman, buildMark, fetches>>

\* a release step that logs a failing release() and carries on
cdl_release_ignores_failure ==
  /\ pc = "l184"
  /\ \E ok \in BOOLEAN :
       /\ pacman' = IF ok THEN "released" ELSE "release_failed"
       /\ pc' = "l192"
       /\ UNCHANGED <<downloads_list, failed_download, last>>
  /\ UNCHANGED <<config, events, caller, package_names,
                 processed_packages, resolved, buildMark, fetches>>

\* lines 183-189: pacman.release() returns or raises
cdl_release ==
  /\ pc = "l184"
  /\ \E ok \in BOOLEAN :
       IF ok
         THEN /\ pacman' = "released"
              /\ pc' = "l192"
              /\ UNCHANGED <<downloads_list, failed_download, last>>
         ELSE /\ pacman' = "release_failed"
              /\ cdl_abort("release")
  /\ UNCHANGED <<config, events, caller, package_names,
                 processed_packages, resolved, buildMark, fetches>>

\* a last step that returns without the closing event
cdl_final_silent ==
  /\ pc = "l192"
  /\ cdl_return("ok")
  /\ UNCHANGED <<config, events, downloads_list, failed_download, caller, build, fetches>>

\* line 192, then the function returns
cdl_final ==
  /\ pc = "l192"
  /\ queue_event("info", "")
  /\ cdl_return("ok")
  /\ UNCHANGED <<config, downloads_list, failed_download, caller, build, fetches>>

(* ---------------- start, lines 99-136 ---------------- *)
\* start() leaves by raising exc ("none": it returns)
start_leave(exc, hadSet) ==
  /\ pc' = "idle"
  /\ last' = [op |-> "start", exc |-> exc, why |-> "", hadSet |-> hadSet]

\* lines 109-136: choose the backend, construct it, run it on the list
dispatch(hadSet) ==
  IF NameDefined("pacman_cache_dir") /\ NameDefined("cache_dir")
       /\ NameDefined("callback_queue")
    THEN \E fetched \in BOOLEAN :
           /\ fetches' = Append(fetches, [backend |-> SelectBackend(download_module),
                                          set |-> downloads_list])
           /\ IF fetched
                THEN /\ start_leave("none", hadSet)
                     /\ UNCHANGED failed_download
                ELSE \* 130-136
                     /\ failed_download' = TRUE
                     /\ start_leave("InstallError", hadSet)
    ELSE \* the constructor's arguments are names no scope binds
         /\ start_leave("NameError", hadSet)
         /\ UNCHANGED <<fetches, failed_download>>

\* a start() that drops the list it was holding once it is done with it
start_discards_list ==
  /\ pc \in {"idle", "l104"}
  /\ IF pc = "idle" /\ downloads_list = None
       THEN IF NameDefined("package_names")
              THEN \E names \in NameLists : cdl_enter(names, "start")
              ELSE /\ start_leave("NameError", FALSE)
                   /\ UNCHANGED <<config, events, downloads_list, failed_download,
                                  caller, build, fetches>>
       ELSE /\ IF downloads_list = None
                 THEN /\ start_leave("InstallError", FALSE)
                      /\ UNCHANGED <<fetches, failed_download>>
                 ELSE dispatch(pc = "idle")
            /\ downloads_list' = None
            /\ UNCHANGED <<config, events, caller, build>>

\* start(): from its entry (pc = "idle") or after its call of
\* create_downloads_list has returned (pc = "l104")
start ==
  /\ pc \in {"idle", "l104"}
  /\ IF pc = "idle" /\ downloads_list = None
       THEN \* lines 101-102
            IF NameDefined("package_names")
              THEN \E names \in NameLists : cdl_enter(names, "start")
              ELSE \* the call's argument is a name no scope binds
                   /\ start_leave("NameError", FALSE)
                   /\ UNCHANGED <<config, events, downloads_list, failed_download,
                                  caller, build, fetches>>
       ELSE /\ IF downloads_list = None
                 THEN \* lines 104-107
                      /\ start_leave("InstallError", FALSE)
                      /\ UNCHANGED <<fetches, failed_download>>
                 ELSE dispatch(pc = "idle")
            /\ UNCHANGED <<config, events, downloads_list, caller, build>>

Next ==
  \/ DownloadPackages_init
  \/ call_queue_event
  \/ consume
  \/ create_downloads_list
  \/ cdl_info
  \/ cdl_open
  \/ cdl_package
  \/ cdl_release
  \/ cdl_final
  \/ start

Spec == Init /\ [][Next]_vars

(* ---------------- properties ---------------- *)
\* create_downloads_list has just returned (nothing but the UI thread ran since)
BuildReturned == pc \in {"idle", "l104"} /\ last.op = "create_downloads_list"
BuildSucceeded == BuildReturned /\ last.why = "ok"

\* union of the file keys of the descriptors of all packages of names
AllKeys(names) == UNION {FileKeys(names[i]) : i \in 1..Len(names)}

\* the first package of names, in input order, whose descriptor has key k
FirstWith(names, k) ==
  names[CHOOSE i \in 1..Len(names) :
          /\ k \in FileKeys(names[i])
          /\ \A j \in 1..(i - 1) : k \notin FileKeys(names[j])]

\* C1: after create_downloads_list over a non-empty list whose resolutions all
\* succeed, the keys of the download set are the union of the packages' file
\* keys, and each key holds the entry of the first package that referenced it.
C1_FirstWins ==
  (BuildSucceeded /\ package_names # <<>>) =>
    /\ DOMAIN downloads_list = AllKeys(package_names)
    /\ \A k \in DOMAIN downloads_list :
         downloads_list[k] = <<FirstWith(package_names, k), k>>

\* a successful build of two different packages that share a file key
C1_Witness ==
  /\ BuildSucceeded
  /\ Len(package_names) >= 2
  /\ package_names[1] # package_names[2]
  /\ FileKeys(package_names[1]) \cap FileKeys(package_names[2]) # {}

\* C2: when resolution of a package fails, at any position, the build returns
\* with downloads_list None; between operations the caller sees either no set
\* or the complete set, and a backend is only ever given a complete set.
C2_NoPartialSet ==
  /\ (BuildReturned /\ last.why = "metalink") => downloads_list = None
  /\ pc = "idle" =>
       \/ downloads_list = None
       \/ DOMAIN downloads_list = AllKeys(package_names)
  /\ \A i \in 1..Len(fetches) :
       DOMAIN fetches[i].set = AllKeys(package_names)

\* a build that failed on a later package, after entries had been merged
C2_Witness ==
  /\ BuildReturned
  /\ last.why = "metalink"
  /\ processed_packages >= 1
  /\ Len(resolved) = processed_packages + 1
  /\ downloads_list = None

\* start() has just returned or raised
StartLeft == pc = "idle" /\ last.op = "start"

\* C3: a start() that reaches the backend either returns without error and
\* without setting 'failed_download' (fetch true), or raises InstallError with
\* 'failed_download' already true (fetch false).
C3_FlagBeforeError ==
  (StartLeft /\ last.hadSet) =>
    \/ last.exc = "none" /\ ~failed_download
    \/ last.exc = "InstallError" /\ failed_download

\* the backend start() is to use for an identifier
BackendFor(identifier) ==
  IF identifier \in {"aria2", "urllib", "requests"} THEN identifier ELSE "requests"

\* C4: a start() holding a download set invokes the fetch of the backend named
\* by download_module (the 'requests' one for any other identifier) once, with
\* exactly that set, and raises nothing on account of the identifier.
C4_Dispatch ==
  (StartLeft /\ last.hadSet) =>
    /\ fetches # <<>>
    /\ fetches[Len(fetches)] =
         [backend |-> BackendFor(download_module), set |-> downloads_list]
    /\ last.exc \in {"none", "InstallError"}

\* the calls of cs[1..n] whose text differs from the text of the previous call
\* of the same type (or that have no previous call of that type)
RECURSIVE NonRepeating(_, _)
NonRepeating(cs, n) ==
  IF n = 0 THEN <<>>
  ELSE LET before == {j \in 1..(n - 1) : cs[j][1] = cs[n][1]}
           prev == CHOOSE j \in before : \A i \in before : i <= j
           fresh == before = {} \/ cs[prev][2] # cs[n][2]
       IN  IF fresh THEN Append(NonRepeating(cs, n - 1), cs[n])
           ELSE NonRepeating(cs, n - 1)

\* C5: with a sink that was never full, the events delivered to the sink are,
\* in order, exactly the queue_event calls whose text differs from the previous
\* call of the same type; types do not interfere.
C5_DedupPerType ==
  (sink /\ ~fullSeen) => delivered = NonRepeating(calls, Len(calls))

\* the calls (T,a), (T,a), (T,b) were made and (T,a) then (T,b) were delivered
C5_Witness ==
  /\ sink /\ ~fullSeen
  /\ \E T \in EventTypes :
       /\ Len(calls) >= 3
       /\ SubSeq(calls, 1, 3) = <<<<T, "a">>, <<T, "a">>, <<T, "b">>>>
       /\ SubSeq(delivered, 1, 2) = <<<<T, "a">>, <<T, "b">>>>
       /\ Len(delivered) = Len(calls) - 1

\* C6: the queue never exceeds its capacity, and a queue_event made while the
\* queue is full leaves the queue as it was, delivers nothing, raises nothing
\* and lets the operation that made it go on (its list is not dropped).
C6_FullQueueDrops ==
  /\ [](Len(queue) <= QueueCap)
  /\ [][(Len(calls') = Len(calls) + 1 /\ Len(queue) = QueueCap) =>
          /\ queue' = queue
          /\ delivered' = delivered
          /\ last' = last \/ last'.exc = "none"
          /\ downloads_list' = None => downloads_list = None
          /\ pc' \in {"idle", "l104"} => last'.why \in {"", "ok"}]_vars

\* a build that met a full queue and still succeeded
C6_Witness ==
  /\ fullSeen
  /\ Len(queue) = QueueCap
  /\ BuildSucceeded
  /\ package_names # <<>>

\* the queue_event calls made by the build that is running or has returned
BuildCalls == SubSeq(calls, buildMark[1] + 1, Len(calls))

\* the texts of the 'percent' events among cs, in order
RECURSIVE PercentTexts(_)
PercentTexts(cs) ==
  IF cs = <<>> THEN <<>>
  ELSE IF Head(cs)[1] = "percent" THEN <<Head(cs)[2]>> \o PercentTexts(Tail(cs))
  ELSE PercentTexts(Tail(cs))

\* the text of every number of hundredths from 0.0 to 1.0
PercentTable == [h \in 0..100 |-> StrPercent(h)]

\* the number of hundredths a 'percent' text stands for
PercentValue(text) ==
  IF text = "0" THEN 0 ELSE CHOOSE h \in 0..100 : PercentTable[h] = text

Dist(x, y) == IF x >= y THEN x - y ELSE y - x

\* round(k/n, 2) in hundredths: the hundredth within half a hundredth of k/n
\* (the even one when k/n lies midway between two)
NearestHundredth(k, n) ==
  CHOOSE h \in 0..100 :
    \/ 2 * Dist(100 * k, h * n) < n
    \/ 2 * Dist(100 * k, h * n) = n /\ h % 2 = 0

\* the build is past line 145, or has returned and nothing was called since
InOrAfterLoop == pc \in {"l148", "l159", "l184", "l192"} \/ BuildReturned

\* C7: the 'percent' event issued after the k-th package is round(k/n, 2), the
\* 'percent' values of a build never decrease, and a build of n >= 1 packages
\* that all resolve ends with the 'percent' text "1.0".
C7_Percent ==
  InOrAfterLoop =>
    LET ps == PercentTexts(BuildCalls) IN
    /\ Len(ps) = processed_packages + 1
    /\ \A k \in 1..processed_packages :
         PercentValue(ps[k + 1]) = NearestHundredth(k, total_packages)
    /\ \A k \in 1..(Len(ps) - 1) : PercentValue(ps[k]) <= PercentValue(ps[k + 1])
    /\ (BuildSucceeded /\ total_packages >= 1) => ps[Len(ps)] = "1.0"

\* a successful build of three packages: 0.33, 0.67, 1.0
C7_Witness ==
  /\ BuildSucceeded
  /\ total_packages = 3
  /\ PercentTexts(BuildCalls) = <<"0", "0.33", "0.67", "1.0">>

\* C8: whenever create_downloads_list returns after it opened the package
\* database handle, release() of that handle has been invoked.
C8_HandleReleased ==
  (BuildReturned /\ pacman # "unbound") => pacman \in {"released", "release_failed"}

\* the build returned because pac.Pac(...) raised
BuildInitFailed == BuildReturned /\ last.why = "init"

\* C9 as stated: when the package database cannot be opened, the build has
\* delivered no event to the sink by the time it fails.
C9_NoEventBeforeInitFailure ==
  BuildInitFailed => Len(delivered) = buildMark[2]

\* C9 amended: when the package database cannot be opened the build ends with
\* no download set and no package resolved, and the events it has issued are
\* exactly the opening 'percent' "0" and the 'info' "Creating the list ..."
\* message; no per-package progress event was issued.
C9_InitFailure ==
  BuildInitFailed =>
    /\ downloads_list = None
    /\ resolved = <<>>
    /\ processed_packages = 0
    /\ pacman = "unbound"
    /\ BuildCalls = <<<<"percent", "0">>, <<"info", CreatingMsg>>>>

\* an initialisation failure of a build whose two opening events reached the sink
C9_Witness ==
  /\ BuildInitFailed
  /\ sink
  /\ package_names # <<>>
  /\ Len(delivered) = buildMark[2] + 2

\* C10: a start() that ends without a download set (its build phase failed)
\* ends by raising InstallError, and no backend fetch was invoked.
C10_BuildFailureHalts ==
  (StartLeft /\ downloads_list = None) =>
    /\ last.exc = "InstallError"
    /\ fetches = <<>>

\* a start() that held a download set on entry leaves in this step
StartWithSetLeaves ==
  /\ pc = "idle"
  /\ downloads_list # None
  /\ last' # last
  /\ last'.op = "start"

BuildDelivered == SubSeq(delivered, buildMark[2] + 1, Len(delivered))

\* a build of ["a", "b"] has succeeded on a sink that was never full
BuildOfABSucceeded ==
  /\ BuildSucceeded
  /\ sink /\ ~fullSeen
  /\ package_names = <<"a", "b">>

\* C12 as stated: the build of ["a", "b"] gives {f1: E1, f2: E3}, its
\* 'percent' events are "0.5" then "1.0", and its final event is 'info' "".
C12_EndToEndAsStated ==
  BuildOfABSucceeded =>
    /\ downloads_list = [k \in {"f1", "f2"} |-> IF k = "f1" THEN <<"a", "f1">> ELSE <<"b", "f2">>]
    /\ PercentTexts(BuildDelivered) = <<"0.5", "1.0">>
    /\ BuildDelivered[Len(BuildDelivered)] = <<"info", "">>

\* C12 amended: the build of ["a", "b"] gives {f1: E1, f2: E3}; the 'percent'
\* events it issues are "0" (before the first package), "0.5" and "1.0", all
\* delivered except that the "0" is not when the coordinator's previous
\* 'percent' event was "0" already; its final event is 'info' "".
C12_EndToEnd ==
  BuildOfABSucceeded =>
    /\ downloads_list = [k \in {"f1", "f2"} |-> IF k = "f1" THEN <<"a", "f1">> ELSE <<"b", "f2">>]
    /\ PercentTexts(BuildCalls) = <<"0", "0.5", "1.0">>
    /\ PercentTexts(BuildDelivered) \in {<<"0", "0.5", "1.0">>, <<"0.5", "1.0">>}
    /\ BuildCalls[Len(BuildCalls)] = <<"info", "">>
    /\ BuildDelivered[Len(BuildDelivered)] = <<"info", "">>

\* the build of ["a", "b"] on a fresh coordinator: five events delivered
C12_Witness ==
  /\ BuildOfABSucceeded
  /\ buildMark = <<0, 0>>
  /\ delivered = <<<<"percent", "0">>, <<"info", CreatingMsg>>, <<"percent", "0.5">>,
                   <<"percent", "1.0">>, <<"info", "">>>>

C14_ReleaseFailure ==
  /\ []((BuildReturned /\ pacman = "release_failed") =>
          /\ downloads_list = None
          /\ last.why = "release"
          /\ processed_packages = total_packages
          /\ resolved = package_names)
  /\ [][downloads_list = None => fetches' = fetches]_vars

\* a build of two packages, both merged, that failed in release()
C14_Witness ==
  /\ BuildReturned
  /\ pacman = "release_failed"
  /\ total_packages >= 2
  /\ processed_packages = total_packages
  /\ downloads_list = None

\* C15: a start() on a coordinator without a set has run the build itself and
\* has given the resolver the package names in input order, one call each, up
\* to the end of the list or to the first package whose resolution failed.
C15_ResolvesInOrder ==
  (StartLeft /\ ~last.hadSet) =>
    /\ caller = "start"
    /\ resolved = SubSeq(package_names, 1, Len(resolved))
    /\ Len(resolved) = total_packages \/ downloads_list = None

\* some event of cs is the 'info' event with empty text
HasEmptyInfo(cs) == \E i \in 1..Len(cs) : cs[i] = <<"info", "">>

\* the text of the last 'info' event of cs ("none" when cs has no 'info' event)
RECURSIVE LastInfoText(_)
LastInfoText(cs) ==
  IF cs = <<>> THEN "none"
  ELSE IF cs[Len(cs)][1] = "info" THEN cs[Len(cs)][2]
  ELSE LastInfoText(SubSeq(cs, 1, Len(cs) - 1))

\* C16: a build issues the 'info' event with empty text exactly when it
\* returns with a set, every package resolved, and then as its last event;
\* a running or failed build has issued none, the last 'info' event of a
\* failed build is the 'Creating the list' message, and on a sink that was
\* never full that message is the last 'info' event delivered.
C16_TerminalInfo ==
  /\ pc \in {"l141", "l148", "l159", "l184", "l192"} => ~HasEmptyInfo(BuildCalls)
  /\ BuildReturned =>
       /\ HasEmptyInfo(BuildCalls) <=> last.why = "ok"
       /\ last.why = "ok" =>
            /\ BuildCalls[Len(BuildCalls)] = <<"info", "">>
            /\ resolved = package_names
            /\ downloads_list # None
       /\ last.why # "ok" =>
            /\ LastInfoText(BuildCalls) = CreatingMsg
            /\ (sink /\ ~fullSeen) => LastInfoText(delivered) = CreatingMsg

\* a build that failed on its second package, its 'Creating the list' message
\* delivered and no empty 'info' event issued
C16_Witness ==
  /\ BuildReturned
  /\ last.why = "metalink"
  /\ processed_packages = 1
  /\ sink /\ ~fullSeen
  /\ <<"info", CreatingMsg>> \in {BuildDelivered[i] : i \in 1..Len(BuildDelivered)}
  /\ ~HasEmptyInfo(calls)

\* the calls of cs that are not 'percent' events
NonPercent(cs) == SelectSeq(cs, LAMBDA e : e[1] # "percent")

\* C17: without a sink nothing is ever queued or remembered, and the log holds
\* one record "type:text" for every queue_event call whose type is not
\* 'percent', repeats included, and none for a 'percent' call.
C17_NoSink ==
  ~sink =>
    /\ queue = <<>>
    /\ delivered = <<>>
    /\ last_event = EmptyDict
    /\ Len(log) = Len(NonPercent(calls))
    /\ \A i \in 1..Len(log) :
         log[i] = NonPercent(calls)[i][1] \o ":" \o NonPercent(calls)[i][2]

\* without a sink: the same 'info' event logged twice in a row, and a
\* 'percent' call that left no record
C17_Witness ==
  /\ ~sink
  /\ pc = "idle"
  /\ \E i \in 1..Len(calls) : calls[i][1] = "percent"
  /\ \E j \in 1..(Len(log) - 1) : log[j] = "info:a" /\ log[j + 1] = "info:a"

\* C18: after every construction attempt the package-manager cache directory
\* of the session (the default path when none was passed) exists, and the
\* construction has succeeded.
C18_CacheDirExists ==
  pc # "new" =>
    /\ pacman_cache_dir \in fs
    /\ last.op = "__init__" => last.exc = "none"

\* the text of the last call of type T in cs ("none" when there is none)
RECURSIVE LastTextOf(_, _)
LastTextOf(cs, T) ==
  IF cs = <<>> THEN "none"
  ELSE IF cs[Len(cs)][1] = T THEN cs[Len(cs)][2]
  ELSE LastTextOf(SubSeq(cs, 1, Len(cs) - 1), T)

\* C19: with a sink, last_event[T] is the text of the most recent queue_event
\* call of type T, delivered or not; and a call that repeats the text of the
\* most recent call of its type puts nothing on the queue, even when that
\* call was dropped on a full queue and the queue has room again.
C19_LastAttempted ==
  /\ [](sink =>
          \A T \in EventTypes :
            /\ T \in DOMAIN last_event <=> LastTextOf(calls, T) # "none"
            /\ T \in DOMAIN last_event => last_event[T] = LastTextOf(calls, T))
  /\ [][(sink /\ Len(calls') = Len(calls) + 1
           /\ LastTextOf(calls, calls'[Len(calls')][1]) = calls'[Len(calls')][2]) =>
          /\ queue' = queue
          /\ delivered' = delivered]_vars

\* an event dropped on a full queue, then called again when the queue had
\* room: it never reached the sink
C19_Witness ==
  /\ sink
  /\ fullSeen
  /\ Len(queue) < QueueCap
  /\ Len(calls) >= 2
  /\ calls[Len(calls)] = calls[Len(calls) - 1]
  /\ \A i \in 1..Len(delivered) : delivered[i] # calls[Len(calls)]
  /\ last_event[calls[Len(calls)][1]] = calls[Len(calls)][2]

\* C20: 'failed_download' changes only in a start() step that invoked a fetch
\* and raises InstallError, and only to true; no build step, whatever its
\* outcome, and no other operation touches it.
C20_FlagFrame ==
  [][failed_download' # failed_download =>
       /\ failed_download'
       /\ last'.op = "start"
       /\ last'.exc = "InstallError"
       /\ Len(fetches') = Len(fetches) + 1]_vars

\* a build has failed after its handle was opened (on a package or in
\* release()), and the settings were left alone
C20_Witness ==
  /\ BuildReturned
  /\ last.why \in {"metalink", "release"}
  /\ pacman \in {"open", "release_failed"}
  /\ ~failed_download
====
